---- MODULE Spec2Model ----
(***************************************************************************)
(* Rate compaction and rate setting of the reserve SDK's pricing client    *)
(* (reserve_sdk/contract.py): get_compact_data, build_compact_price and    *)
(* ConversionRatesContract.get_token_indices / build_price / set_rates.    *)
(*                                                                         *)
(* Rates are integers (token wei).  The float expression                   *)
(* int((rate/base - 1) * 1000) is computed as Python computes it: in       *)
(* IEEE 754 doubles, each operation rounded to nearest, then truncated     *)
(* toward zero by int().                                                   *)
(***************************************************************************)
EXTENDS Integers, Sequences, FiniteSets, TLC

VARIABLES
    token_indices,  \* self.token_indices: the client's cache, token -> TokenIndex
    index_reads,    \* chain side: successful getCompactData(token) reads so far, per token
    basic_rate,     \* chain side: getBasicRate(token, buy) as of the current call
    pc,             \* position of the client: "idle", inside set_rates, or "returned"
    args,           \* arguments of the set_rates call (token_addresses, buy_rates, sell_rates)
    local_indices,  \* set_rates' local dict token_indices
    resolved,       \* entries of token_addresses the dict comprehension has gone through
    tasks,          \* the futures of executor.map, one per zipped (token, buy, sell)
    prices,         \* results collected from the futures so far, in input order
    txs,            \* transactions submitted by the call
    reads,          \* chain reads issued by the call: index reads, base-rate reads, reads that failed
    outcome,        \* the last call: [op, status ("ok" or "error")], and what it returned
    fn_in,          \* input of a pure function applied on its own
    fn_out          \* its result: << >> before the call, <<value>> after

vars == <<token_indices, index_reads, basic_rate, pc, args, local_indices,
          resolved, tasks, prices, txs, reads, outcome, fn_in, fn_out>>

client_vars == <<token_indices, index_reads, basic_rate, pc, args, local_indices,
                 resolved, tasks, prices, txs, reads, outcome>>

(***************************************************************************)
(* Bounds of the model.                                                    *)
(***************************************************************************)
MaxBase == 70       \* get_compact_data alone: bases 0..MaxBase
MaxRate == 80       \* get_compact_data alone: rates up to MaxRate
NegRates == 2       \* get_compact_data alone: rates down to -NegRates
MaxPrice == 10      \* build_price alone: rates and bases 0..MaxPrice
MaxBatch == 3       \* build_compact_price alone: at most MaxBatch price updates
MaxLen == 2         \* set_rates: each argument list has at most MaxLen entries
MaxTasks == 5       \* set_rates on the pool: calls of up to MaxTasks tokens

(***************************************************************************)
(* Program constants.                                                      *)
(***************************************************************************)
NumFields == 14     \* [0] * 14: slots of one compact-data array
MaxWorkers == 4     \* ThreadPoolExecutor(max_workers=4)

Tokens == {"A", "B"}


TokenIndex(array_idx, field_idx) == [array_idx |-> array_idx, field_idx |-> field_idx]

CompactData(base, compact) == [base |-> base, compact |-> compact]

(***************************************************************************)
(* Python floats are IEEE 754 doubles: 53 significant bits, every          *)
(* operation rounded to nearest, ties to even.  A double of the model is   *)
(* [sgn, m, e] with value sgn * m * 2^(e - 52), where m is a natural       *)
(* number of exactly 53 bits (or sgn = 0 for zero).  Naturals of that size *)
(* are kept as sequences of limbs, lowest limb first.                      *)
(***************************************************************************)
MantBits == 53

LimbBase == 32 * 1024

RECURSIVE BitLenNat(_)
BitLenNat(n) == IF n = 0 THEN 0 ELSE 1 + BitLenNat(n \div 2)

LimbBits == BitLenNat(LimbBase - 1)

RECURSIVE BigFromNat(_)
BigFromNat(n) == IF n = 0 THEN << >> ELSE <<n % LimbBase>> \o BigFromNat(n \div LimbBase)

RECURSIVE BigToNat(_)
BigToNat(x) == IF x = << >> THEN 0 ELSE x[1] + LimbBase * BigToNat(Tail(x))

RECURSIVE BigTrim(_)
BigTrim(x) ==
    IF x # << >> /\ x[Len(x)] = 0 THEN BigTrim(SubSeq(x, 1, Len(x) - 1)) ELSE x

HigherLimbs(x) == IF x = << >> THEN << >> ELSE Tail(x)

LowLimb(x) == IF x = << >> THEN 0 ELSE x[1]

BigBitLen(x) ==
    IF x = << >> THEN 0 ELSE LimbBits * (Len(x) - 1) + BitLenNat(x[Len(x)])

RECURSIVE BigMulSmall(_, _, _)
\* x * m + carry, for m <= LimbBase
BigMulSmall(x, m, carry) ==
    IF x = << >>
    THEN BigFromNat(carry)
    ELSE LET t == x[1] * m + carry
         IN  <<t % LimbBase>> \o BigMulSmall(Tail(x), m, t \div LimbBase)

RECURSIVE BigShl(_, _)
\* x * 2^k
BigShl(x, k) ==
    IF x = << >> THEN << >>
    ELSE IF k >= LimbBits THEN <<0>> \o BigShl(x, k - LimbBits)
    ELSE BigMulSmall(x, 2^k, 0)

RECURSIVE BigDivSmall(_, _)
\* quotient and remainder of x by d, for 0 < d <= LimbBase
BigDivSmall(x, d) ==
    IF x = << >>
    THEN [q |-> << >>, r |-> 0]
    ELSE LET hi == BigDivSmall(Tail(x), d)
             t == hi.r * LimbBase + x[1]
         IN  [q |-> BigTrim(<<t \div d>> \o hi.q), r |-> t % d]

RECURSIVE BigAddC(_, _, _)
BigAddC(x, y, carry) ==
    IF x = << >> /\ y = << >>
    THEN BigFromNat(carry)
    ELSE LET t == LowLimb(x) + LowLimb(y) + carry
         IN  <<t % LimbBase>> \o BigAddC(HigherLimbs(x), HigherLimbs(y), t \div LimbBase)

BigAdd(x, y) == BigAddC(x, y, 0)

RECURSIVE BigSubB(_, _, _)
BigSubB(x, y, borrow) ==
    IF x = << >>
    THEN << >>
    ELSE LET t == x[1] - LowLimb(y) - borrow
         IN  <<IF t < 0 THEN t + LimbBase ELSE t>>
                 \o BigSubB(Tail(x), HigherLimbs(y), IF t < 0 THEN 1 ELSE 0)

\* x - y, for x >= y
BigSub(x, y) == BigTrim(BigSubB(x, y, 0))

RECURSIVE BigCmpFrom(_, _, _)
BigCmpFrom(x, y, i) ==
    IF i = 0 THEN 0
    ELSE IF x[i] > y[i] THEN 1
    ELSE IF x[i] < y[i] THEN -1
    ELSE BigCmpFrom(x, y, i - 1)

\* 1, 0 or -1 as x is above, equal to or below y
BigCmp(x, y) ==
    IF Len(x) > Len(y) THEN 1
    ELSE IF Len(x) < Len(y) THEN -1
    ELSE BigCmpFrom(x, y, Len(x))

RECURSIVE BigShr(_, _)
\* x \div 2^k, with the highest bit shifted out (half) and whether any lower
\* bit shifted out is set (sticky)
BigShr(x, k) ==
    IF k = 0 THEN [q |-> x, half |-> FALSE, sticky |-> FALSE]
    ELSE IF k > LimbBits
    THEN LET rest == BigShr(HigherLimbs(x), k - LimbBits)
         IN  [q |-> rest.q, half |-> rest.half,
              sticky |-> rest.sticky \/ LowLimb(x) # 0]
    ELSE LET d == BigDivSmall(x, 2^k)
             h == 2^(k - 1)
         IN  [q |-> d.q, half |-> d.r >= h, sticky |-> (d.r % h) # 0]

FloatZero == [sgn |-> 0, m |-> << >>, e |-> 0]

\* The double nearest to sgn * (mag + f) * 2^ex, ties to even, where f is a
\* fraction in [0, 1) that is nonzero iff inexact (and then mag has more than
\* MantBits bits).
RoundNearestEven(sgn, mag, ex, inexact) ==
    IF mag = << >> \/ sgn = 0
    THEN FloatZero
    ELSE LET len == BigBitLen(mag)
         IN  IF len <= MantBits
             THEN [sgn |-> sgn, m |-> BigShl(mag, MantBits - len), e |-> ex + len - 1]
             ELSE LET sh == BigShr(mag, len - MantBits)
                      up == sh.half /\ (sh.sticky \/ inexact \/ sh.q[1] % 2 = 1)
                      m1 == IF up THEN BigAdd(sh.q, <<1>>) ELSE sh.q
                  IN  IF BigBitLen(m1) > MantBits
                      THEN [sgn |-> sgn, m |-> BigShr(m1, 1).q, e |-> ex + len]
                      ELSE [sgn |-> sgn, m |-> m1, e |-> ex + len - 1]

\* rate / base on two ints: true division, correctly rounded
FloatDiv(rate, base) ==
    IF rate = 0
    THEN FloatZero
    ELSE LET k == MantBits + BitLenNat(base)
             d == BigDivSmall(BigShl(BigFromNat(IF rate < 0 THEN -rate ELSE rate), k), base)
         IN  RoundNearestEven(IF rate < 0 THEN -1 ELSE 1, d.q, -k, d.r # 0)

\* x - 1
FloatSubOne(x) ==
    LET ex == IF x.e - (MantBits - 1) < 0 THEN x.e - (MantBits - 1) ELSE 0
        a == BigShl(x.m, x.e - (MantBits - 1) - ex)
        one == BigShl(<<1>>, -ex)
    IN  IF x.sgn = 0 THEN RoundNearestEven(-1, <<1>>, 0, FALSE)
        ELSE IF x.sgn < 0 THEN RoundNearestEven(-1, BigAdd(a, one), ex, FALSE)
        ELSE IF BigCmp(a, one) > 0 THEN RoundNearestEven(1, BigSub(a, one), ex, FALSE)
        ELSE IF BigCmp(a, one) < 0 THEN RoundNearestEven(-1, BigSub(one, a), ex, FALSE)
        ELSE FloatZero

\* x * n for an int 0 < n <= LimbBase
FloatMulNat(x, n) ==
    IF x.sgn = 0
    THEN FloatZero
    ELSE RoundNearestEven(x.sgn, BigMulSmall(x.m, n, 0), x.e - (MantBits - 1), FALSE)

\* int(x): the fraction is dropped (truncation toward zero); |x| < 2^31 here
FloatToInt(x) ==
    IF x.sgn = 0 \/ x.e < 0
    THEN 0
    ELSE x.sgn * BigToNat(BigShr(x.m, (MantBits - 1) - x.e).q)

\* compact = int((rate/base - 1) * 1000), base # 0
compact_delta(rate, base) ==
    FloatToInt(FloatMulNat(FloatSubOne(FloatDiv(rate, base)), 1000))

\* Mutant of get_compact_data: the reset test as < -128 / > 127, so that the
\* boundary deltas -128 and 127 are encoded as bytes.
get_compact_data_wide(rate, base) ==
    IF base = 0
    THEN CompactData(rate, 0)
    ELSE LET compact == compact_delta(rate, base)
         IN  IF compact < -128 \/ compact > 127
             THEN CompactData(rate, 0)
             ELSE CompactData(base, IF compact < 0 THEN compact + 256 ELSE compact)

\* Mutant of get_compact_data: with no base set the base is kept, not replaced
\* by the rate.
get_compact_data_keep(rate, base) ==
    IF base = 0
    THEN CompactData(base, 0)
    ELSE LET compact == compact_delta(rate, base)
         IN  IF compact <= -128 \/ compact >= 127
             THEN CompactData(rate, 0)
             ELSE CompactData(base, IF compact < 0 THEN compact + 256 ELSE compact)

get_compact_data(rate, base) ==
    IF base = 0
    THEN CompactData(rate, 0)
    ELSE LET compact == compact_delta(rate, base)
         IN  IF compact <= -128 \/ compact >= 127
             THEN CompactData(rate, 0)
             ELSE CompactData(base, IF compact < 0 THEN compact + 256 ELSE compact)

\* self.contract.functions.getBasicRate(token_address, buy).call()
get_basic_rate(token_address, buy) ==
    IF buy THEN basic_rate[token_address].buy ELSE basic_rate[token_address].sell

\* Mutant of build_price: base_changed only when both legs changed their base.
build_price_and(token, buy, sell, base_buy, base_sell) ==
    LET compact_buy == get_compact_data(buy, base_buy)
        compact_sell == get_compact_data(sell, base_sell)
    IN  [token |-> token,
         base_buy |-> compact_buy.base,
         base_sell |-> compact_sell.base,
         compact_buy |-> compact_buy.compact,
         compact_sell |-> compact_sell.compact,
         base_changed |-> (compact_buy.base # base_buy) /\ (compact_sell.base # base_sell)]

\* Mutant of build_price: the update carries the bases read from the chain
\* instead of the bases get_compact_data returned.
build_price_prior(token, buy, sell, base_buy, base_sell) ==
    LET compact_buy == get_compact_data(buy, base_buy)
        compact_sell == get_compact_data(sell, base_sell)
    IN  [token |-> token,
         base_buy |-> base_buy,
         base_sell |-> base_sell,
         compact_buy |-> compact_buy.compact,
         compact_sell |-> compact_sell.compact,
         base_changed |-> (compact_buy.base # base_buy) \/ (compact_sell.base # base_sell)]

(***************************************************************************)
(* build_price once its two reads, base_buy = get_basic_rate(token, True)  *)
(* and base_sell = get_basic_rate(token, False), have returned.            *)
(***************************************************************************)
build_price(token, buy, sell, base_buy, base_sell) ==
    LET compact_buy == get_compact_data(buy, base_buy)
        compact_sell == get_compact_data(sell, base_sell)
    IN  [token |-> token,
         base_buy |-> compact_buy.base,
         base_sell |-> compact_sell.base,
         compact_buy |-> compact_buy.compact,
         compact_sell |-> compact_sell.compact,
         base_changed |-> (compact_buy.base # base_buy) \/ (compact_sell.base # base_sell)]

\* hexlify (reserve_sdk/utils.py): the bytes of a list packed as hex digits,
\* two per byte, high digit first
hexlify(bytes) ==
    [i \in 1..(2 * Len(bytes)) |->
        IF i % 2 = 1 THEN bytes[(i + 1) \div 2] \div 16 ELSE bytes[i \div 2] % 16]

\* [0] * 14
zero_fields == [f \in 1..NumFields |-> 0]

\* position of key array_idx in the insertion-ordered dict result, 0 if absent
dict_pos(result, array_idx) ==
    IF \E j \in 1..Len(result) : result[j].key = array_idx
    THEN CHOOSE j \in 1..Len(result) : result[j].key = array_idx
    ELSE 0

\* one round of the loop over prices: result[array_idx] is created zeroed when
\* absent, then its buy and sell lists are written at field_idx (0-based)
put_price(result, p, token_indices_arg) ==
    LET array_idx == token_indices_arg[p.token].array_idx
        field_idx == token_indices_arg[p.token].field_idx
        created == IF dict_pos(result, array_idx) = 0
                   THEN Append(result, [key |-> array_idx, buy |-> zero_fields,
                                        sell |-> zero_fields])
                   ELSE result
        j == dict_pos(created, array_idx)
    IN  [created EXCEPT ![j].buy[field_idx + 1] = p.compact_buy,
                        ![j].sell[field_idx + 1] = p.compact_sell]

RECURSIVE group_prices(_, _, _)
\* the dict result after the first n prices
group_prices(prices_arg, token_indices_arg, n) ==
    IF n = 0
    THEN << >>
    ELSE put_price(group_prices(prices_arg, token_indices_arg, n - 1), prices_arg[n], token_indices_arg)

\* Mutant of build_compact_price: the buy and sell lists returned in each
\* other's place.
build_compact_price_swapped(prices_arg, token_indices_arg) ==
    LET result == group_prices(prices_arg, token_indices_arg, Len(prices_arg))
    IN  [buy |-> [j \in 1..Len(result) |-> hexlify(result[j].sell)],
         sell |-> [j \in 1..Len(result) |-> hexlify(result[j].buy)],
         indices |-> [j \in 1..Len(result) |-> result[j].key]]

build_compact_price(prices_arg, token_indices_arg) ==
    LET result == group_prices(prices_arg, token_indices_arg, Len(prices_arg))
    IN  [buy |-> [j \in 1..Len(result) |-> hexlify(result[j].buy)],
         sell |-> [j \in 1..Len(result) |-> hexlify(result[j].sell)],
         indices |-> [j \in 1..Len(result) |-> result[j].key]]

(***************************************************************************)
(* The client after construction: an empty cache, no call made.            *)
(***************************************************************************)
NoArgs == [token_addresses |-> <<>>, buy_rates |-> <<>>, sell_rates |-> <<>>]

NoReads == [index |-> 0, base |-> 0, failed |-> 0]

NoOutcome == [op |-> "none"]

ClientInit ==
    /\ token_indices = << >>
    /\ index_reads = [t \in Tokens |-> 0]
    /\ pc = "idle"
    /\ args = NoArgs
    /\ local_indices = << >>
    /\ resolved = 0
    /\ tasks = << >>
    /\ prices = << >>
    /\ txs = << >>
    /\ reads = NoReads
    /\ outcome = NoOutcome

(***************************************************************************)
(* get_compact_data applied on its own to every (rate, base) of the bounds.*)
(***************************************************************************)
InitCompact ==
    /\ ClientInit
    /\ basic_rate = [t \in Tokens |-> [buy |-> 0, sell |-> 0]]
    /\ fn_in \in [rate : (0 - NegRates)..MaxRate, base : 0..MaxBase]
    /\ fn_out = << >>

ApplyCompact ==
    /\ fn_out = << >>
    /\ fn_out' = <<get_compact_data(fn_in.rate, fn_in.base)>>
    /\ UNCHANGED <<fn_in, client_vars>>

NextCompact == ApplyCompact

SpecCompact == InitCompact /\ [][NextCompact]_vars

(***************************************************************************)
(* Statements about get_compact_data.  The delta is stated here from its   *)
(* definition over the rationals, d = (rate/base - 1) * 1000 truncated     *)
(* toward zero: d is between 0 and the exact quotient                      *)
(* (rate - base) * 1000 / base and less than 1 away from it.               *)
(***************************************************************************)
IsDelta(d, rate, base) ==
    LET n == (rate - base) * 1000
    IN  IF n >= 0
        THEN d >= 0 /\ d * base <= n /\ n < (d + 1) * base
        ELSE d <= 0 /\ d * base >= n /\ n > (d - 1) * base

\* the signed value of a compact byte: subtract 256 when it is above 127
DecodeByte(b) == IF b > 127 THEN b - 256 ELSE b

CompactApplied == fn_out # << >>

\* C2: for rate >= 0 and base > 0 whose delta (rate/base - 1) * 1000,
\* truncated toward zero, is in -127..126, get_compact_data returns base
\* unchanged and a byte in 0..255 that is delta when delta >= 0 and delta + 256
\* when delta < 0; decoding the byte gives back delta.
C2_FittingDeltaEncoded ==
    (CompactApplied /\ fn_in.rate >= 0 /\ fn_in.base > 0) =>
        \A d \in -127..126 :
            IsDelta(d, fn_in.rate, fn_in.base) =>
                /\ fn_out[1].base = fn_in.base
                /\ fn_out[1].compact \in 0..255
                /\ fn_out[1].compact = (IF d >= 0 THEN d ELSE d + 256)
                /\ DecodeByte(fn_out[1].compact) = d

C4_ZeroBaseResets ==
    (CompactApplied /\ fn_in.rate >= 0 /\ fn_in.base = 0) =>
        fn_out[1] = CompactData(fn_in.rate, 0)

C4_Witness ==
    /\ CompactApplied
    /\ fn_in.rate = 5 /\ fn_in.base = 0
    /\ fn_out[1] = CompactData(5, 0)

(***************************************************************************)
(* build_price applied on its own: every token, buy and sell rate and pair *)
(* of on-chain bases of the bounds; both reads succeed.                    *)
(***************************************************************************)
InitPrice ==
    /\ ClientInit
    /\ fn_in \in [token : Tokens, buy : 0..MaxPrice, sell : 0..MaxPrice]
    /\ \E bb \in 0..MaxPrice, bs \in 0..MaxPrice :
          basic_rate = [t \in Tokens |-> IF t = fn_in.token
                                         THEN [buy |-> bb, sell |-> bs]
                                         ELSE [buy |-> 0, sell |-> 0]]
    /\ fn_out = << >>

ApplyPrice ==
    /\ fn_out = << >>
    /\ fn_out' = <<build_price(fn_in.token, fn_in.buy, fn_in.sell,
                               get_basic_rate(fn_in.token, TRUE),
                               get_basic_rate(fn_in.token, FALSE))>>
    /\ UNCHANGED <<fn_in, client_vars>>

NextPrice == ApplyPrice

SpecPrice == InitPrice /\ [][NextPrice]_vars

(***************************************************************************)
(* Statements about build_price.                                           *)
(***************************************************************************)
PriceApplied == fn_out # << >>

\* the leg takes the reset case of get_compact_data: its current base is 0,
\* or its delta is <= -128 or >= 127
LegResets(rate, base) ==
    \/ base = 0
    \/ (rate - base) * 1000 >= 127 * base
    \/ (rate - base) * 1000 <= (-128) * base

C6_Original ==
    PriceApplied =>
        IF fn_out[1].base_changed
        THEN /\ fn_out[1].base_buy = fn_in.buy
             /\ fn_out[1].base_sell = fn_in.sell
             /\ fn_out[1].compact_buy = 0
             /\ fn_out[1].compact_sell = 0
        ELSE /\ fn_out[1].base_buy = get_basic_rate(fn_in.token, TRUE)
             /\ fn_out[1].base_sell = get_basic_rate(fn_in.token, FALSE)

\* one leg of a price update: reset legs carry the requested rate and compact
\* 0, the other legs the on-chain base and a delta byte
LegAsReturned(rate, prior, base, compact) ==
    IF LegResets(rate, prior)
    THEN base = rate /\ compact = 0
    ELSE base = prior /\ compact \in 0..255 /\ DecodeByte(compact) \in -127..126

\* C6 as amended: when base_changed, every leg that took the reset case holds
\* the requested rate with compact 0 and at least one leg does so with a rate
\* other than its prior base, while a leg that fits keeps its prior base and
\* carries a delta byte; when base_changed is false, base_buy and base_sell
\* both equal the bases recorded on chain.
C6_ResetLegsHoldNewRate ==
    PriceApplied =>
        LET bb == get_basic_rate(fn_in.token, TRUE)
            bs == get_basic_rate(fn_in.token, FALSE)
            p == fn_out[1]
        IN  IF p.base_changed
            THEN /\ LegAsReturned(fn_in.buy, bb, p.base_buy, p.compact_buy)
                 /\ LegAsReturned(fn_in.sell, bs, p.base_sell, p.compact_sell)
                 /\ \/ LegResets(fn_in.buy, bb) /\ p.base_buy = fn_in.buy /\ fn_in.buy # bb
                    \/ LegResets(fn_in.sell, bs) /\ p.base_sell = fn_in.sell /\ fn_in.sell # bs
            ELSE p.base_buy = bb /\ p.base_sell = bs

\* buy resets (10 against 5), sell fits (9 against 8, delta 125)
C6_Witness ==
    /\ PriceApplied
    /\ fn_in.buy = 10 /\ get_basic_rate(fn_in.token, TRUE) = 5
    /\ fn_in.sell = 9 /\ get_basic_rate(fn_in.token, FALSE) = 8
    /\ fn_out[1].base_changed
    /\ fn_out[1].base_buy = 10 /\ fn_out[1].compact_buy = 0
    /\ fn_out[1].base_sell = 8 /\ fn_out[1].compact_sell = 125

(***************************************************************************)
(* build_compact_price applied on its own: every list of at most MaxBatch  *)
(* price updates over three tokens, as build_price returns them, and every *)
(* placement of the tokens on distinct slots of the compact data.          *)
(***************************************************************************)
BatchTokens == {"A", "B", "C"}

BatchSlots == {TokenIndex(0, 3), TokenIndex(0, 5), TokenIndex(1, 0), TokenIndex(1, 13)}

\* price updates against bases of 1000: two that fit and a reset
BatchUpdates ==
    {build_price(t, r[1], r[2], 1000, 1000) :
        t \in BatchTokens, r \in {<<1050, 987>>, <<1000, 1126>>, <<1500, 1000>>}}

SeqsUpTo(S, n) == UNION {[1..k -> S] : k \in 0..n}

InitBatch ==
    /\ ClientInit
    /\ basic_rate = [t \in Tokens |-> [buy |-> 0, sell |-> 0]]
    /\ \E ps \in SeqsUpTo(BatchUpdates, MaxBatch) :
       \E ti \in {m \in [BatchTokens -> BatchSlots] :
                     \A a, b \in BatchTokens : a # b => m[a] # m[b]} :
          fn_in = [prices |-> ps, token_indices |-> ti]
    /\ fn_out = << >>

ApplyBatch ==
    /\ fn_out = << >>
    /\ fn_out' = <<build_compact_price(fn_in.prices, fn_in.token_indices)>>
    /\ UNCHANGED <<fn_in, client_vars>>

NextBatch == ApplyBatch

SpecBatch == InitBatch /\ [][NextBatch]_vars

(***************************************************************************)
(* Statements about build_compact_price.                                   *)
(***************************************************************************)
BatchApplied == fn_out # << >>

\* the byte at slot f (0-based) of a packed array of hex digits
SlotOf(packed, f) == 16 * packed[2 * f + 1] + packed[2 * f + 2]

\* array_idx of the i-th input update
ArrayIdxAt(i) == fn_in.token_indices[fn_in.prices[i].token].array_idx

\* the input updates addressed to slot (a, f)
UpdatesAt(a, f) ==
    {i \in 1..Len(fn_in.prices) :
        fn_in.token_indices[fn_in.prices[i].token] = TokenIndex(a, f)}

MaxOf(S) == CHOOSE x \in S : \A y \in S : y <= x

MinOf(S) == CHOOSE x \in S : \A y \in S : x <= y

\* C7: build_compact_price returns three sequences of equal length with one
\* entry per distinct array_idx of the input tokens, in order of first
\* occurrence; each buy and sell entry has 14 slots, slot field_idx holding the
\* compact_buy / compact_sell of the token at (indices[k], field_idx) (of its
\* last update when the token is repeated) and every other slot 0.
C7_BatchGroupsByArrayIdx ==
    BatchApplied =>
        LET out == fn_out[1]
            n == Len(out.indices)
            FirstAt(a) == MinOf({i \in 1..Len(fn_in.prices) : ArrayIdxAt(i) = a})
        IN  /\ Len(out.buy) = n /\ Len(out.sell) = n
            /\ {out.indices[k] : k \in 1..n} =
                   {ArrayIdxAt(i) : i \in 1..Len(fn_in.prices)}
            /\ \A j, k \in 1..n :
                   j < k => /\ out.indices[j] # out.indices[k]
                            /\ FirstAt(out.indices[j]) < FirstAt(out.indices[k])
            /\ \A k \in 1..n :
                   /\ Len(out.buy[k]) = 2 * 14 /\ Len(out.sell[k]) = 2 * 14
                   /\ \A f \in 0..13 :
                        LET at == UpdatesAt(out.indices[k], f)
                        IN  IF at = {}
                            THEN /\ SlotOf(out.buy[k], f) = 0
                                 /\ SlotOf(out.sell[k], f) = 0
                            ELSE /\ SlotOf(out.buy[k], f) =
                                        fn_in.prices[MaxOf(at)].compact_buy
                                 /\ SlotOf(out.sell[k], f) =
                                        fn_in.prices[MaxOf(at)].compact_sell

\* tokens at (0, 3) and (0, 5), then one at array index 1: array index 0 comes
\* first with only slots 3 and 5 set
C7_Witness ==
    /\ BatchApplied
    /\ Len(fn_in.prices) = 3
    /\ fn_in.token_indices[fn_in.prices[1].token] = TokenIndex(0, 3)
    /\ fn_in.token_indices[fn_in.prices[2].token] = TokenIndex(1, 13)
    /\ fn_in.token_indices[fn_in.prices[3].token] = TokenIndex(0, 5)
    /\ fn_in.prices[1].compact_buy = 50 /\ fn_in.prices[1].compact_sell = 243
    /\ fn_in.prices[3].compact_buy = 0 /\ fn_in.prices[3].compact_sell = 125
    /\ fn_out[1].indices = <<0, 1>>
    /\ SlotOf(fn_out[1].buy[1], 3) = 50 /\ SlotOf(fn_out[1].sell[1], 3) = 243
    /\ SlotOf(fn_out[1].sell[1], 5) = 125
    /\ \A f \in (0..13) \ {3, 5} : SlotOf(fn_out[1].buy[1], f) = 0

(***************************************************************************)
(* The pricing client in use: sequential get_token_indices and set_rates   *)
(* calls on one ConversionRatesContract.  The chain is the environment:    *)
(* every read may fail, the base rates may differ from one call to the     *)
(* next, and a token's place in the compact data never changes.            *)
(***************************************************************************)
\* Requested rates and on-chain bases of the model.  A buy leg fits (105
\* against 100, delta 50) or resets by its rate (150 against 100); a sell leg
\* fits or resets because no base is set yet (base 0).
BuyRates == {105, 150}

SellRates == {105}

ChainBases == [buy : {100}, sell : {0, 100}]

\* contract.functions.getCompactData(token).call(): the token's place on chain
getCompactData(token) == IF token = "A" THEN TokenIndex(0, 3) ELSE TokenIndex(0, 5)

Init ==
    /\ ClientInit
    /\ basic_rate \in [Tokens -> ChainBases]
    /\ fn_in = << >>
    /\ fn_out = << >>

\* Mutant of cache_miss: the chain is read whether or not the token is cached.
cache_miss_always(token) == TRUE

\* if token not in self.token_indices
cache_miss(token) == token \notin DOMAIN token_indices

\* self.token_indices[token] = TokenIndex(arr_idx, field_idx)
cache_put(token, index) ==
    [t \in DOMAIN token_indices \cup {token} |->
        IF t = token THEN index ELSE token_indices[t]]

\* token_indices[token] = ... in the dict comprehension of set_rates
dict_put(dict, token, index) ==
    [t \in DOMAIN dict \cup {token} |-> IF t = token THEN index ELSE dict[t]]

(***************************************************************************)
(* get_token_indices(token), called on its own.                            *)
(***************************************************************************)
GetTokenIndices(token) ==
    /\ pc = "idle"
    /\ \/ /\ ~cache_miss(token)
          /\ outcome' = [op |-> "get_token_indices", status |-> "ok", token |-> token,
                         value |-> token_indices[token]]
          /\ UNCHANGED <<token_indices, index_reads>>
       \/ /\ cache_miss(token)
          /\ token_indices' = cache_put(token, getCompactData(token))
          /\ index_reads' = [index_reads EXCEPT ![token] = @ + 1]
          /\ outcome' = [op |-> "get_token_indices", status |-> "ok", token |-> token,
                         value |-> getCompactData(token)]
       \/ /\ cache_miss(token)      \* the read raises
          /\ outcome' = [op |-> "get_token_indices", status |-> "error", token |-> token]
          /\ UNCHANGED <<token_indices, index_reads>>
    /\ pc' = "returned"
    /\ UNCHANGED <<basic_rate, args, local_indices, resolved, tasks, prices, txs,
                   reads, fn_in, fn_out>>

(***************************************************************************)
(* set_rates(token_addresses, buy_rates, sell_rates) is entered.           *)
(***************************************************************************)
CallSetRates(token_addresses, buy_rates, sell_rates) ==
    /\ pc = "idle"
    /\ pc' = "indices"
    /\ args' = [token_addresses |-> token_addresses, buy_rates |-> buy_rates,
                sell_rates |-> sell_rates]
    /\ basic_rate' \in [Tokens -> ChainBases]
    /\ outcome' = [op |-> "set_rates", status |-> "running"]
    /\ UNCHANGED <<token_indices, index_reads, local_indices, resolved, tasks, prices,
                   txs, reads, fn_in, fn_out>>

\* the call ends by raising
Raise ==
    /\ pc' = "returned"
    /\ outcome' = [op |-> "set_rates", status |-> "error"]

(***************************************************************************)
(* One entry of {token: self.get_token_indices(token) for token in         *)
(* token_addresses}.                                                       *)
(***************************************************************************)
ResolveIndex ==
    /\ pc = "indices"
    /\ resolved < Len(args.token_addresses)
    /\ LET token == args.token_addresses[resolved + 1]
       IN  \/ /\ ~cache_miss(token)
              /\ local_indices' = dict_put(local_indices, token, token_indices[token])
              /\ resolved' = resolved + 1
              /\ UNCHANGED <<token_indices, index_reads, reads, pc, outcome>>
           \/ /\ cache_miss(token)
              /\ reads' = [reads EXCEPT !.index = @ + 1]
              /\ token_indices' = cache_put(token, getCompactData(token))
              /\ index_reads' = [index_reads EXCEPT ![token] = @ + 1]
              /\ local_indices' = dict_put(local_indices, token, getCompactData(token))
              /\ resolved' = resolved + 1
              /\ UNCHANGED <<pc, outcome>>
           \/ /\ cache_miss(token)      \* the read raises
              /\ reads' = [reads EXCEPT !.index = @ + 1, !.failed = @ + 1]
              /\ Raise
              /\ UNCHANGED <<token_indices, index_reads, local_indices, resolved>>
    /\ UNCHANGED <<basic_rate, args, tasks, prices, txs, fn_in, fn_out>>

MinOf3(a, b, c) == IF a <= b /\ a <= c THEN a ELSE IF b <= c THEN b ELSE c

\* zip(token_addresses, buy_rates, sell_rates): as long as the shortest list
zip_args(token_addresses, buy_rates, sell_rates) ==
    [k \in 1..MinOf3(Len(token_addresses), Len(buy_rates), Len(sell_rates)) |->
        [token |-> token_addresses[k], buy |-> buy_rates[k], sell |-> sell_rates[k]]]

(***************************************************************************)
(* self.executor.map(...): one future per zipped entry, all submitted at   *)
(* once and queued in input order.                                         *)
(***************************************************************************)
SubmitTasks ==
    /\ pc = "indices"
    /\ resolved = Len(args.token_addresses)
    /\ pc' = "prices"
    /\ tasks' = LET zipped == zip_args(args.token_addresses, args.buy_rates,
                                        args.sell_rates)
                IN  [k \in 1..Len(zipped) |->
                        [st |-> "queued", p |-> zipped[k], base_buy |-> 0,
                         price |-> << >>]]
    /\ UNCHANGED <<token_indices, index_reads, basic_rate, args, local_indices,
                   resolved, prices, txs, reads, outcome, fn_in, fn_out>>

Running == {k \in 1..Len(tasks) : tasks[k].st \in {"running", "got_buy"}}

\* a worker of the pool takes the oldest queued future
StartTask(k) ==
    /\ pc = "prices"
    /\ k \in 1..Len(tasks)
    /\ tasks[k].st = "queued"
    /\ \A j \in 1..(k - 1) : tasks[j].st # "queued"
    /\ Cardinality(Running) < MaxWorkers
    /\ tasks' = [tasks EXCEPT ![k].st = "running"]
    /\ UNCHANGED <<token_indices, index_reads, basic_rate, pc, args, local_indices,
                   resolved, prices, txs, reads, outcome, fn_in, fn_out>>

\* build_price: base_buy = self.get_basic_rate(token, True)
ReadBaseBuy(k) ==
    /\ pc = "prices"
    /\ k \in 1..Len(tasks)
    /\ tasks[k].st = "running"
    /\ \/ /\ tasks' = [tasks EXCEPT ![k].st = "got_buy",
                                    ![k].base_buy = get_basic_rate(tasks[k].p.token, TRUE)]
          /\ reads' = [reads EXCEPT !.base = @ + 1]
       \/ /\ tasks' = [tasks EXCEPT ![k].st = "failed"]     \* the read raises
          /\ reads' = [reads EXCEPT !.base = @ + 1, !.failed = @ + 1]
    /\ UNCHANGED <<token_indices, index_reads, basic_rate, pc, args, local_indices,
                   resolved, prices, txs, outcome, fn_in, fn_out>>

\* build_price: base_sell = self.get_basic_rate(token, False), and the rest
ReadBaseSell(k) ==
    /\ pc = "prices"
    /\ k \in 1..Len(tasks)
    /\ tasks[k].st = "got_buy"
    /\ \/ /\ tasks' = [tasks EXCEPT
                          ![k].st = "done",
                          ![k].price = <<build_price(tasks[k].p.token, tasks[k].p.buy,
                                                     tasks[k].p.sell, tasks[k].base_buy,
                                                     get_basic_rate(tasks[k].p.token, FALSE))>>]
          /\ reads' = [reads EXCEPT !.base = @ + 1]
       \/ /\ tasks' = [tasks EXCEPT ![k].st = "failed"]     \* the read raises
          /\ reads' = [reads EXCEPT !.base = @ + 1, !.failed = @ + 1]
    /\ UNCHANGED <<token_indices, index_reads, basic_rate, pc, args, local_indices,
                   resolved, prices, txs, outcome, fn_in, fn_out>>

\* Mutant of CollectResult: a future that raised is taken for a finished one
\* with no result, and the call goes on.
CollectResultSkipping ==
    /\ pc = "prices"
    /\ Len(prices) < Len(tasks)
    /\ LET k == Len(prices) + 1
       IN  \/ /\ tasks[k].st = "done"
              /\ prices' = Append(prices, tasks[k].price[1])
              /\ UNCHANGED <<pc, outcome, tasks>>
           \/ /\ tasks[k].st = "failed"
              /\ tasks' = SubSeq(tasks, 1, k - 1) \o SubSeq(tasks, k + 1, Len(tasks))
              /\ UNCHANGED <<pc, outcome, prices>>
    /\ UNCHANGED <<token_indices, index_reads, basic_rate, args, local_indices,
                   resolved, txs, reads, fn_in, fn_out>>

\* Mutant of CollectResult: the results are taken as the futures complete,
\* whichever is done first, and not in input order.
CollectResultAsCompleted ==
    /\ pc = "prices"
    /\ Len(prices) < Len(tasks)
    /\ \E k \in 1..Len(tasks) :
          \/ /\ tasks[k].st = "done"
             /\ tasks[k].price # << >>
             /\ prices' = Append(prices, tasks[k].price[1])
             /\ tasks' = [tasks EXCEPT ![k].price = << >>]
             /\ UNCHANGED <<pc, outcome>>
          \/ /\ tasks[k].st = "failed"
             /\ Raise
             /\ UNCHANGED <<prices, tasks>>
    /\ UNCHANGED <<token_indices, index_reads, basic_rate, args, local_indices,
                   resolved, txs, reads, fn_in, fn_out>>

(***************************************************************************)
(* list(executor.map(...)): the caller takes the futures' results in input *)
(* order, waiting for each; the first future that raised ends the call.    *)
(* Futures still running then go on reading the chain, which changes       *)
(* nothing of the client; they are left as they are.                       *)
(***************************************************************************)
CollectResult ==
    /\ pc = "prices"
    /\ Len(prices) < Len(tasks)
    /\ LET k == Len(prices) + 1
       IN  \/ /\ tasks[k].st = "done"
              /\ prices' = Append(prices, tasks[k].price[1])
              /\ UNCHANGED <<pc, outcome>>
           \/ /\ tasks[k].st = "failed"
              /\ Raise
              /\ UNCHANGED prices
    /\ UNCHANGED <<token_indices, index_reads, basic_rate, args, local_indices,
                   resolved, tasks, txs, reads, fn_in, fn_out>>

\* Mutant of set_rates_tx: the base rates are set only when every update
\* changed its base.
set_rates_tx_all(prices_arg, token_indices_arg) ==
    LET changed == SelectSeq(prices_arg, LAMBDA price : price.base_changed)
        compact == build_compact_price(prices_arg, token_indices_arg)
    IN  IF Len(changed) = Len(prices_arg) /\ changed # << >>
        THEN [fn |-> "setBaseRate",
              tokens |-> [i \in 1..Len(changed) |-> changed[i].token],
              base_buy |-> [i \in 1..Len(changed) |-> changed[i].base_buy],
              base_sell |-> [i \in 1..Len(changed) |-> changed[i].base_sell],
              compact_buy |-> compact.buy,
              compact_sell |-> compact.sell,
              indices |-> compact.indices]
        ELSE [fn |-> "setCompactData",
              compact_buy |-> compact.buy,
              compact_sell |-> compact.sell,
              indices |-> compact.indices]

\* Mutant of set_rates_tx: the compact batch is built from the updates that
\* keep their base only, the ones with base_changed left out.
set_rates_tx_rest(prices_arg, token_indices_arg) ==
    LET changed == SelectSeq(prices_arg, LAMBDA price : price.base_changed)
        rest == SelectSeq(prices_arg, LAMBDA price : ~price.base_changed)
        compact == build_compact_price(rest, token_indices_arg)
    IN  IF changed # << >>
        THEN [fn |-> "setBaseRate",
              tokens |-> [i \in 1..Len(changed) |-> changed[i].token],
              base_buy |-> [i \in 1..Len(changed) |-> changed[i].base_buy],
              base_sell |-> [i \in 1..Len(changed) |-> changed[i].base_sell],
              compact_buy |-> compact.buy,
              compact_sell |-> compact.sell,
              indices |-> compact.indices]
        ELSE [fn |-> "setCompactData",
              compact_buy |-> compact.buy,
              compact_sell |-> compact.sell,
              indices |-> compact.indices]

(***************************************************************************)
(* The contract call set_rates builds from the collected prices: the       *)
(* updates with base_changed are listed, and setBaseRate is called if      *)
(* there is any, setCompactData otherwise.  The block number passed along  *)
(* is left out.                                                            *)
(***************************************************************************)
set_rates_tx(prices_arg, token_indices_arg) ==
    LET changed == SelectSeq(prices_arg, LAMBDA price : price.base_changed)
        compact == build_compact_price(prices_arg, token_indices_arg)
    IN  IF changed # << >>
        THEN [fn |-> "setBaseRate",
              tokens |-> [i \in 1..Len(changed) |-> changed[i].token],
              base_buy |-> [i \in 1..Len(changed) |-> changed[i].base_buy],
              base_sell |-> [i \in 1..Len(changed) |-> changed[i].base_sell],
              compact_buy |-> compact.buy,
              compact_sell |-> compact.sell,
              indices |-> compact.indices]
        ELSE [fn |-> "setCompactData",
              compact_buy |-> compact.buy,
              compact_sell |-> compact.sell,
              indices |-> compact.indices]

(***************************************************************************)
(* self.call_contract_func(...): the transaction is sent, or sending it    *)
(* raises.                                                                 *)
(***************************************************************************)
SendTransaction ==
    /\ pc = "prices"
    /\ Len(prices) = Len(tasks)
    /\ \/ /\ txs' = Append(txs, set_rates_tx(prices, local_indices))
          /\ pc' = "returned"
          /\ outcome' = [op |-> "set_rates", status |-> "ok"]
       \/ /\ Raise
          /\ UNCHANGED txs
    /\ UNCHANGED <<token_indices, index_reads, basic_rate, args, local_indices,
                   resolved, tasks, prices, reads, fn_in, fn_out>>

(***************************************************************************)
(* The call is over: its arguments and locals are gone, and the client is  *)
(* ready for the next call.  What stays is the cache.                      *)
(***************************************************************************)
Return ==
    /\ pc = "returned"
    /\ pc' = "idle"
    /\ args' = NoArgs
    /\ local_indices' = << >>
    /\ resolved' = 0
    /\ tasks' = << >>
    /\ prices' = << >>
    /\ txs' = << >>
    /\ reads' = NoReads
    /\ outcome' = NoOutcome
    /\ UNCHANGED <<token_indices, index_reads, basic_rate, fn_in, fn_out>>

Next ==
    \/ \E token \in Tokens : GetTokenIndices(token)
    \/ \E token_addresses \in SeqsUpTo(Tokens, MaxLen),
          buy_rates \in SeqsUpTo(BuyRates, MaxLen),
          sell_rates \in SeqsUpTo(SellRates, MaxLen) :
            CallSetRates(token_addresses, buy_rates, sell_rates)
    \/ ResolveIndex
    \/ SubmitTasks
    \/ \E k \in 1..MaxLen : StartTask(k) \/ ReadBaseBuy(k) \/ ReadBaseSell(k)
    \/ CollectResult
    \/ SendTransaction
    \/ Return

Spec == Init /\ [][Next]_vars

(***************************************************************************)
(* set_rates with more tokens than the pool has workers.  The calls have   *)
(* three lists of one length, up to MaxTasks; tokens A and B alternate, so *)
(* that a token comes more than once and the later update of its slot has  *)
(* to win; every third buy rate resets the base and the others fit a byte, *)
(* so that the updates of one token differ.                                *)
(***************************************************************************)
PoolTokens(n) == [k \in 1..n |-> IF k % 2 = 1 THEN "A" ELSE "B"]

PoolBuyRates(n) == [k \in 1..n |-> IF k % 3 = 0 THEN 150 ELSE 105]

PoolSellRates(n) == [k \in 1..n |-> 105]

NextPool ==
    \/ \E n \in 0..MaxTasks :
          CallSetRates(PoolTokens(n), PoolBuyRates(n), PoolSellRates(n))
    \/ ResolveIndex
    \/ SubmitTasks
    \/ \E k \in 1..MaxTasks : StartTask(k) \/ ReadBaseBuy(k) \/ ReadBaseSell(k)
    \/ CollectResult
    \/ SendTransaction
    \/ Return

SpecPool == Init /\ [][NextPool]_vars

(***************************************************************************)
(* Statements about set_rates and the cache of token indices.              *)
(***************************************************************************)
SetRatesReturned == pc = "returned" /\ outcome.op = "set_rates"

SetRatesSucceeded == SetRatesReturned /\ outcome.status = "ok"

AnyBaseChanged == \E k \in 1..Len(prices) : prices[k].base_changed

\* C1: a successful set_rates call has submitted exactly one transaction:
\* setBaseRate if some token's price update has base_changed, and
\* setCompactData iff none has; before the call succeeds nothing is submitted.
C1_OneTransactionByBaseChanged ==
    /\ outcome.op = "set_rates" /\ outcome.status # "ok" => txs = << >>
    /\ SetRatesSucceeded =>
          /\ Len(txs) = 1
          /\ Len(prices) = MinOf3(Len(args.token_addresses), Len(args.buy_rates),
                                  Len(args.sell_rates))
          /\ txs[1].fn \in {"setBaseRate", "setCompactData"}
          /\ AnyBaseChanged => txs[1].fn = "setBaseRate"
          /\ txs[1].fn = "setCompactData" <=> ~AnyBaseChanged

\* two tokens, the second alone with base_changed: one setBaseRate call
C1_Witness ==
    /\ SetRatesSucceeded
    /\ Len(prices) = 2
    /\ ~prices[1].base_changed /\ prices[2].base_changed
    /\ Len(txs) = 1 /\ txs[1].fn = "setBaseRate"

ListsMismatched ==
    \/ Len(args.token_addresses) # Len(args.buy_rates)
    \/ Len(args.token_addresses) # Len(args.sell_rates)

\* C8: a set_rates call whose three lists do not all have the same length
\* issues no token-index read, no base-rate read and no transaction, and ends
\* with an error.
C8_MismatchedListsRejected ==
    (outcome.op = "set_rates" /\ ListsMismatched) =>
        /\ reads.index = 0
        /\ reads.base = 0
        /\ txs = << >>
        /\ pc = "returned" => outcome.status = "error"

\* C9: once a token-index read or a base-rate read of a set_rates call has
\* failed, the call submits no transaction and can only end with an error.
C9_FailedReadSubmitsNothing ==
    (outcome.op = "set_rates" /\ reads.failed > 0) =>
        /\ txs = << >>
        /\ outcome.status # "ok"
        /\ pc = "returned" => outcome.status = "error"

\* the second token's sell-rate read fails after all the other reads succeeded
C9_Witness ==
    /\ SetRatesReturned
    /\ outcome.status = "error"
    /\ Len(tasks) = 2
    /\ tasks[1].st = "done" /\ tasks[2].st = "failed"
    /\ reads = [index |-> 2, base |-> 4, failed |-> 1]
    /\ txs = << >>

\* C10: the chain is read for a token's index only while the token is not in
\* the cache, so no token's index is read successfully more than once; a cached
\* index is never changed or removed; and every lookup of a cached token, by
\* get_token_indices or inside set_rates, returns the cached value.
C10_IndexCachedOnce ==
    /\ [](\A t \in Tokens : index_reads[t] <= 1)
    /\ [][ /\ \A t \in Tokens :
                index_reads'[t] # index_reads[t] => t \notin DOMAIN token_indices
           /\ (pc = "indices" /\ reads'.index # reads.index) =>
                args.token_addresses[resolved + 1] \notin DOMAIN token_indices
           /\ \A t \in DOMAIN token_indices :
                t \in DOMAIN token_indices' /\ token_indices'[t] = token_indices[t]
           /\ (pc = "idle" /\ outcome'.op = "get_token_indices"
                 /\ outcome'.status = "ok" /\ outcome'.token \in DOMAIN token_indices) =>
                outcome'.value = token_indices[outcome'.token]
           /\ \A t \in DOMAIN local_indices' :
                /\ t \in DOMAIN token_indices'
                /\ local_indices'[t] = token_indices'[t]
                /\ t \in DOMAIN token_indices => local_indices'[t] = token_indices[t]
         ]_vars

\* token A twice in one call: read once, then served from the cache
C10_Witness ==
    /\ pc = "indices"
    /\ args.token_addresses = <<"A", "A">>
    /\ resolved = 2
    /\ reads.index = 1
    /\ index_reads["A"] = 1
    /\ local_indices["A"] = TokenIndex(0, 3)

(***************************************************************************)
(* Statements about the pool of set_rates.                                 *)
(***************************************************************************)
\* the price updates of the call when its zipped entries are processed one
\* after another in input order, each with its two base-rate reads
SequentialPrices ==
    LET zipped == zip_args(args.token_addresses, args.buy_rates, args.sell_rates)
    IN  [k \in 1..Len(zipped) |->
            build_price(zipped[k].token, zipped[k].buy, zipped[k].sell,
                        get_basic_rate(zipped[k].token, TRUE),
                        get_basic_rate(zipped[k].token, FALSE))]

\* the token indices of the call when resolved one after another
SequentialIndices ==
    [t \in {args.token_addresses[k] : k \in 1..Len(args.token_addresses)} |->
        getCompactData(t)]

\* C11: in set_rates at most 4 price builds run at a time, in whatever order
\* they complete the updates collected so far are those of the first entries
\* in input order, and a transaction is submitted only when every price build
\* has completed both its base-rate reads; the call submitted and its
\* arguments are those of processing the tokens one after another in input
\* order.
C11_PoolAsSequential ==
    /\ Cardinality(Running) <= MaxWorkers
    /\ outcome.op = "set_rates" =>
          /\ Len(prices) <= Len(tasks)
          /\ \A k \in 1..Len(prices) :
                tasks[k].st = "done" /\ prices[k] = SequentialPrices[k]
          /\ txs # << >> =>
                /\ \A k \in 1..Len(tasks) : tasks[k].st = "done"
                /\ Len(tasks) = Len(SequentialPrices)
                /\ reads.base = 2 * Len(tasks)
                /\ txs = <<set_rates_tx(SequentialPrices, SequentialIndices)>>

\* five tokens on four workers: the call has gone through with setBaseRate
\* for token A, whose second update of three resets the base
C11_Witness ==
    /\ SetRatesSucceeded
    /\ Len(tasks) = MaxWorkers + 1
    /\ args.buy_rates = <<105, 105, 150, 105, 105>>
    /\ reads.base = 2 * (MaxWorkers + 1)
    /\ Len(txs) = 1
    /\ txs[1].fn = "setBaseRate"
    /\ txs[1].tokens = <<"A">>

(***************************************************************************)
(* Statements about the arguments of setBaseRate.                          *)
(***************************************************************************)
\* C12: in the setBaseRate call of set_rates, tokens lists the input tokens
\* whose price update has base_changed, in input order, and base_buy and
\* base_sell have its length and hold those updates' bases position by
\* position; compact_buy, compact_sell and indices have one entry per
\* array_idx of the call's tokens, each slot holding the compact byte of the
\* last update of the token placed there, reset or not, and 0 where no token
\* is placed.  With three lists of one length every input token has an update.
C12_BaseRateArgs ==
    (SetRatesSucceeded /\ Len(txs) = 1 /\ txs[1].fn = "setBaseRate") =>
        LET tx == txs[1]
            n == Len(prices)
            changed == {k \in 1..n : prices[k].base_changed}
            rank(k) == Cardinality({j \in changed : j <= k})
            at(a, f) == {k \in 1..n :
                            local_indices[args.token_addresses[k]] = TokenIndex(a, f)}
            m == Len(tx.indices)
        IN  /\ ~ListsMismatched => n = Len(args.token_addresses)
            /\ \A k \in 1..n : prices[k].token = args.token_addresses[k]
            /\ Len(tx.tokens) = Cardinality(changed)
            /\ Len(tx.base_buy) = Len(tx.tokens)
            /\ Len(tx.base_sell) = Len(tx.tokens)
            /\ \A k \in changed :
                   /\ tx.tokens[rank(k)] = args.token_addresses[k]
                   /\ tx.base_buy[rank(k)] = prices[k].base_buy
                   /\ tx.base_sell[rank(k)] = prices[k].base_sell
            /\ Len(tx.compact_buy) = m /\ Len(tx.compact_sell) = m
            /\ {tx.indices[i] : i \in 1..m} =
                   {local_indices[args.token_addresses[k]].array_idx : k \in 1..n}
            /\ \A i, j \in 1..m : i # j => tx.indices[i] # tx.indices[j]
            /\ \A i \in 1..m, f \in 0..(NumFields - 1) :
                   IF at(tx.indices[i], f) = {}
                   THEN /\ SlotOf(tx.compact_buy[i], f) = 0
                        /\ SlotOf(tx.compact_sell[i], f) = 0
                   ELSE /\ SlotOf(tx.compact_buy[i], f) =
                               prices[MaxOf(at(tx.indices[i], f))].compact_buy
                        /\ SlotOf(tx.compact_sell[i], f) =
                               prices[MaxOf(at(tx.indices[i], f))].compact_sell

\* tokens A and B, only B's buy base reset: setBaseRate lists B alone with its
\* new buy base, and the batch holds A's bytes as well as B's sell byte
C12_Witness ==
    /\ SetRatesSucceeded
    /\ args.token_addresses = <<"A", "B">>
    /\ Len(txs) = 1
    /\ txs[1].fn = "setBaseRate"
    /\ txs[1].tokens = <<"B">>
    /\ txs[1].base_buy = <<150>>
    /\ txs[1].base_sell = <<100>>
    /\ txs[1].indices = <<0>>
    /\ SlotOf(txs[1].compact_buy[1], 3) = 50
    /\ SlotOf(txs[1].compact_buy[1], 5) = 0
    /\ SlotOf(txs[1].compact_sell[1], 5) = 50

====
